---- MODULE Spec2Model ----
(***************************************************************************)
(* A model of four pieces of the Stan library:                             *)
(*   - stan::agrad::binary_log_loss on forward-mode values (fvar),         *)
(*   - stan::math::inverse_spd,                                            *)
(*   - stan::math::append_col,                                             *)
(*   - stan::services::util::generate_transitions,                         *)
(* and of the reverse-mode tape with its backward sweep.                   *)
(*                                                                         *)
(* Real numbers (double) are modelled by exact rationals <<n, d>> in       *)
(* lowest terms with d >= 0; d = 0 stands for the IEEE special values:     *)
(* <<1, 0>> is +inf, <<-1, 0>> is -inf and <<0, 0>> is NaN.  Rounding is   *)
(* not modelled.                                                           *)
(***************************************************************************)
EXTENDS Integers, Sequences, FiniteSets, TLC

VARIABLES
    \* binary_log_loss (forward mode)
    y, y_hat, bll_pc, bll_ret,
    \* inverse_spd
    spd_m, spd_T, spd_pc, spd_err, ldlt, spd_result, spd_tape,
    \* generate_transitions
    num_iterations, start, num_thin, save, gt_m, gt_pc, calls,
    \* append_col
    A, B, ac_mixed, ac_same,
    \* reverse-mode tape
    tape, adjoint, cursor, rev_pc, snap

bllVars == <<y, y_hat, bll_pc, bll_ret>>
spdVars == <<spd_m, spd_T, spd_pc, spd_err, ldlt, spd_result, spd_tape>>
gtVars  == <<num_iterations, start, num_thin, save, gt_m, gt_pc, calls>>
acVars  == <<A, B, ac_mixed, ac_same>>
revVars == <<tape, adjoint, cursor, rev_pc, snap>>
vars    == <<bllVars, spdVars, gtVars, acVars, revVars>>

\* The components are independent programs: a specification runs one of them and
\* holds the variables of the others at these values.
BllIdle == y = 0 /\ y_hat = <<>> /\ bll_pc = "idle" /\ bll_ret = <<>>
SpdIdle == /\ spd_m = <<>> /\ spd_T = "double" /\ spd_pc = "idle" /\ spd_err = ""
           /\ ldlt = <<>> /\ spd_result = <<>> /\ spd_tape = <<>>
GtIdle  == /\ num_iterations = 0 /\ start = 0 /\ num_thin = 1 /\ save = FALSE
           /\ gt_m = 0 /\ gt_pc = "idle" /\ calls = <<>>
AcIdle  == A = <<>> /\ B = <<>> /\ ac_mixed = <<>> /\ ac_same = <<>>
RevIdle == /\ tape = <<>> /\ adjoint = <<>> /\ cursor = 0 /\ rev_pc = "idle"
           /\ snap = <<>>

-----------------------------------------------------------------------------
(* Bounds of the model *)

MaxDen == 5     \* denominators of the probabilities y_hat.val_ drawn
MaxTan == 2     \* |y_hat.d_| of the tangents drawn
MaxDim == 2     \* rows and columns of the matrices given to inverse_spd
MaxRows == 2    \* rows of the matrices given to append_col
MaxCols == 2    \* columns of the matrices given to append_col
MaxNodes == 4   \* nodes of the tape
MaxIter == 4    \* num_iterations of generate_transitions
MaxStart == 2   \* start of generate_transitions
MaxThin == 3    \* |num_thin| of generate_transitions

-----------------------------------------------------------------------------
(* double arithmetic, exact *)

Abs(x) == IF x < 0 THEN -x ELSE x

Sign(x) == IF x > 0 THEN 1 ELSE IF x < 0 THEN -1 ELSE 0

RECURSIVE Gcd(_, _)
Gcd(a, b) == IF b = 0 THEN a ELSE Gcd(b, a % b)

\* n/d in lowest terms, the denominator made positive; x/0 is +-inf or NaN.
Norm(n, d) ==
    IF d = 0 THEN <<Sign(n), 0>>
    ELSE LET g == Gcd(Abs(n), Abs(d))
             s == Sign(d)
         IN  <<(s * n) \div g, (s * d) \div g>>

Rat(n) == <<n, 1>>

IsFinite(a) == a[2] # 0
IsNaN(a)    == a = <<0, 0>>

RNeg(a) == <<-a[1], a[2]>>

RAdd(a, b) ==
    IF IsFinite(a) /\ IsFinite(b) THEN Norm(a[1] * b[2] + b[1] * a[2], a[2] * b[2])
    ELSE IF IsNaN(a) \/ IsNaN(b) THEN <<0, 0>>
    ELSE IF ~IsFinite(a) /\ ~IsFinite(b) /\ a # b THEN <<0, 0>>
    ELSE IF ~IsFinite(a) THEN a ELSE b

RSub(a, b) == RAdd(a, RNeg(b))

RMul(a, b) ==
    IF IsFinite(a) /\ IsFinite(b) THEN Norm(a[1] * b[1], a[2] * b[2])
    ELSE IF IsNaN(a) \/ IsNaN(b) \/ a[1] = 0 \/ b[1] = 0 THEN <<0, 0>>
    ELSE <<Sign(a[1]) * Sign(b[1]), 0>>

\* IEEE division: finite/0 is +-inf (NaN for 0/0), finite/inf is 0.
RDiv(a, b) ==
    IF IsFinite(a) /\ IsFinite(b) THEN Norm(a[1] * b[2], a[2] * b[1])
    ELSE IF IsNaN(a) \/ IsNaN(b) THEN <<0, 0>>
    ELSE IF ~IsFinite(a) /\ ~IsFinite(b) THEN <<0, 0>>
    ELSE IF ~IsFinite(a) THEN <<a[1] * (IF b[1] < 0 THEN -1 ELSE 1), 0>>
    ELSE <<0, 1>>

RLess(a, b) == IsFinite(a) /\ IsFinite(b) /\ a[1] * b[2] < b[1] * a[2]
RLeq(a, b)  == IsFinite(a) /\ IsFinite(b) /\ a[1] * b[2] <= b[1] * a[2]
RAbs(a)     == <<Abs(a[1]), a[2]>>

-----------------------------------------------------------------------------
(* stan::agrad::binary_log_loss(const int y, const fvar<T>& y_hat)         *)

\* fvar<T>: the pair (val_, d_).
fvar(val, d) == [val_ |-> val, d_ |-> d]

\* stan::math::binary_log_loss(int, double), the primal rule
\* -[y log(p) + (1-y) log(1-p)]: the logarithm is kept symbolic, as the term
\* -log(arg).
prim_binary_log_loss(yy, p) ==
    IF yy # 0 THEN <<"neglog", p>> ELSE <<"neglog", RSub(Rat(1), p)>>

\* binary_log_loss with the sign of the tangent lost in the branch y # 0
binary_log_loss_mut1(yy, yh) ==
    IF yy # 0
      THEN fvar(prim_binary_log_loss(yy, yh.val_), RDiv(yh.d_, yh.val_))
      ELSE fvar(prim_binary_log_loss(yy, yh.val_),
                RDiv(yh.d_, RSub(Rat(1), yh.val_)))

binary_log_loss(yy, yh) ==
    IF yy # 0
      THEN fvar(prim_binary_log_loss(yy, yh.val_), RDiv(RNeg(yh.d_), yh.val_))
      ELSE fvar(prim_binary_log_loss(yy, yh.val_),
                RDiv(yh.d_, RSub(Rat(1), yh.val_)))

Probabilities ==
    {Norm(q[1], q[2]) : q \in {r \in (0..MaxDen) \X (1..MaxDen) : r[1] <= r[2]}}
Tangents == {Rat(t) : t \in (-MaxTan)..MaxTan}

BllInit ==
    /\ y \in {0, 1}
    /\ y_hat \in {fvar(p, t) : p \in Probabilities, t \in Tangents}
    /\ bll_pc = "call"
    /\ bll_ret = <<>>

BllCall ==
    /\ bll_pc = "call"
    /\ bll_ret' = binary_log_loss(y, y_hat)
    /\ bll_pc' = "returned"
    /\ UNCHANGED <<y, y_hat>>

BllOthers == UNCHANGED <<spdVars, gtVars, acVars, revVars>>

BllNext == BllCall /\ BllOthers

BllStart == BllInit /\ SpdIdle /\ GtIdle /\ AcIdle /\ RevIdle

SpecBll == BllStart /\ [][BllNext]_vars

\* C1: for y in {0,1} and y_hat = (p, t), the forward-mode binary_log_loss
\* returns the primal binary_log_loss(y, p) as its value, and a tangent d with
\* d * p = -t when y = 1 (that is d = -t/p) and d * (1 - p) = t when y = 0
\* (d = t/(1-p)); at p = 4/5, t = 1 the tangent is -5/4 for y = 1 and 5 for
\* y = 0.
C1_ForwardBinaryLogLoss ==
    bll_pc = "returned" =>
        LET p == y_hat.val_
            t == y_hat.d_
            q == RSub(Rat(1), p)
        IN  /\ bll_ret.val_ = <<"neglog", IF y = 1 THEN p ELSE q>>
            /\ (y = 1 /\ p # Rat(0)) =>
                   /\ IsFinite(bll_ret.d_)
                   /\ RMul(bll_ret.d_, p) = RNeg(t)
            /\ (y = 0 /\ q # Rat(0)) =>
                   /\ IsFinite(bll_ret.d_)
                   /\ RMul(bll_ret.d_, q) = t
            /\ (y = 1 /\ p = Rat(0)) => bll_ret.d_ = <<-Sign(t[1]), 0>>
            /\ (y = 0 /\ q = Rat(0)) => bll_ret.d_ = <<Sign(t[1]), 0>>
            /\ (p = <<4, 5>> /\ t = Rat(1)) =>
                   bll_ret.d_ = (IF y = 1 THEN <<-5, 4>> ELSE <<5, 1>>)

C1_Witness ==
    /\ bll_pc = "returned"
    /\ y = 1
    /\ y_hat = fvar(<<4, 5>>, Rat(1))
    /\ bll_ret = fvar(<<"neglog", <<4, 5>>>>, <<-5, 4>>)

-----------------------------------------------------------------------------
(* stan::math::inverse_spd(const Eigen::Matrix<T,Dynamic,Dynamic>& m)       *)

Idx(r, c) == (1..r) \X (1..c)

Max2(a, b) == IF a >= b THEN a ELSE b
Min2(a, b) == IF a <= b THEN a ELSE b

\* Eigen::Matrix<T,Dynamic,Dynamic>: rows(), cols() and the coefficients.
\* T is double or the reverse-mode type var (spd_T).
Matrix(r, c, f) == [rows |-> r, cols |-> c, e |-> f]

\* The entries of the matrices drawn.
EntryVals == {-1, 0, 1, 2}

\* check_square: passes when rows() = cols().
check_square(M) == M.rows = M.cols

\* check_symmetric: passes when m(i,j) = m(j,i) for all i, j.
check_symmetric(M) ==
    \A ij \in Idx(M.rows, M.cols) : M.e[ij] = M.e[<<ij[2], ij[1]>>]

\* 0.5*(m+m.transpose()), the argument of the LDLT constructor.
Symmetrized(M) ==
    [ij \in Idx(M.rows, M.cols) |->
        RMul(<<1, 2>>, Rat(M.e[ij] + M.e[<<ij[2], ij[1]>>]))]

RECURSIVE RSumTo(_, _)
RSumTo(f, k) == IF k = 0 THEN Rat(0) ELSE RAdd(RSumTo(f, k - 1), f[k])

\* Eigen::LDLT: the factorization P A P^T = L D L^T in place on the lower
\* triangle, pivoting on the diagonal coefficient of largest absolute value.
LdltPivot(mat, k, n) ==
    CHOOSE p \in k..n :
        /\ \A i \in k..n : RLeq(RAbs(mat[<<i, i>>]), RAbs(mat[<<p, p>>]))
        /\ \A i \in k..(p - 1) : RLess(RAbs(mat[<<i, i>>]), RAbs(mat[<<p, p>>]))

\* The transposition of rows and columns k and p, on the lower triangle.
LdltSwap(mat, k, p, n) ==
    [ij \in Idx(n, n) |->
        LET i == ij[1]
            j == ij[2]
            a == IF i = k THEN p ELSE IF i = p THEN k ELSE i
            b == IF j = k THEN p ELSE IF j = p THEN k ELSE j
        IN  IF j > i THEN mat[ij]
            ELSE IF j < k THEN mat[<<a, j>>]
            ELSE mat[<<Max2(a, b), Min2(a, b)>>]]

\* Column k minus the contribution of the columns before it.
LdltUpdate(mat, k, n) ==
    LET temp == [j \in 1..(k - 1) |-> RMul(mat[<<j, j>>], mat[<<k, j>>])]
        dot(i) == RSumTo([j \in 1..(k - 1) |-> RMul(mat[<<i, j>>], temp[j])], k - 1)
    IN  [ij \in Idx(n, n) |->
            IF ij[2] = k /\ ij[1] >= k THEN RSub(mat[ij], dot(ij[1])) ELSE mat[ij]]

LdltSign(sign, akk) ==
    IF sign = "PositiveSemiDef"
      THEN (IF RLess(akk, Rat(0)) THEN "Indefinite" ELSE sign)
    ELSE IF sign = "NegativeSemiDef"
      THEN (IF RLess(Rat(0), akk) THEN "Indefinite" ELSE sign)
    ELSE IF sign = "ZeroSign"
      THEN (IF RLess(Rat(0), akk) THEN "PositiveSemiDef"
            ELSE IF RLess(akk, Rat(0)) THEN "NegativeSemiDef" ELSE sign)
    ELSE sign

LdltStep(st, k, n) ==
    LET p     == LdltPivot(st.mat, k, n)
        m1    == IF p = k THEN st.mat ELSE LdltSwap(st.mat, k, p, n)
        m2    == IF k > 1 THEN LdltUpdate(m1, k, n) ELSE m1
        akk   == m2[<<k, k>>]
        valid == akk # Rat(0)
        rs    == n - k
    IN  IF k = 1 /\ ~valid
          THEN [mat  |-> m2,
                tr   |-> [j \in 1..n |-> j],
                sign |-> "ZeroSign",
                ret  |-> st.ret /\ \A ij \in Idx(n, n) :
                                       ij[1] > ij[2] => m2[ij] = Rat(0),
                fzp  |-> st.fzp,
                stop |-> TRUE]
          ELSE [mat  |-> IF rs > 0 /\ valid
                           THEN [ij \in Idx(n, n) |->
                                   IF ij[2] = k /\ ij[1] > k
                                     THEN RDiv(m2[ij], akk) ELSE m2[ij]]
                           ELSE m2,
                tr   |-> [st.tr EXCEPT ![k] = p],
                sign |-> LdltSign(st.sign, akk),
                ret  |-> /\ st.ret
                         /\ (rs > 0 /\ ~valid) =>
                                \A i \in (k + 1)..n : m2[<<i, k>>] = Rat(0)
                         /\ ~(st.fzp /\ valid),
                fzp  |-> st.fzp \/ ~valid,
                stop |-> FALSE]

RECURSIVE LdltLoop(_, _, _)
LdltLoop(st, k, n) ==
    IF k > n \/ st.stop THEN st ELSE LdltLoop(LdltStep(st, k, n), k + 1, n)

\* LDLT's constructor: compute(matrix).  info() is Success or NumericalIssue,
\* vectorD() is the diagonal, matrixL() the unit lower triangle.
LDLT(S, n) ==
    LET st0 == [mat |-> S, tr |-> [j \in 1..n |-> j], sign |-> "ZeroSign",
                ret |-> TRUE, fzp |-> FALSE, stop |-> FALSE]
        st  == IF n <= 1
                 THEN [st0 EXCEPT !.sign =
                          IF n = 0 THEN "ZeroSign" ELSE LdltSign("ZeroSign", S[<<1, 1>>])]
                 ELSE LdltLoop(st0, 1, n)
    IN  [n    |-> n,
         info |-> IF st.ret THEN "Success" ELSE "NumericalIssue",
         sign |-> st.sign,
         D    |-> [i \in 1..n |-> st.mat[<<i, i>>]],
         L    |-> st.mat,
         tr   |-> st.tr]

\* LDLT::isPositive()
isPositive(f) == f.sign \in {"PositiveSemiDef", "ZeroSign"}

\* the test of line 31 without its look at vectorD()
AnyNonPositiveD_mut1(f) == FALSE

\* (ldlt.vectorD().array() <= 0).any()
AnyNonPositiveD(f) == \E i \in 1..f.n : RLeq(f.D[i], Rat(0))

\* The test of line 31: the matrix is not positive definite.
NotPositiveDefinite(f) == ~isPositive(f) \/ AnyNonPositiveD(f)

RECURSIVE ApplyTr(_, _, _, _)
\* The transpositions k = from, from+step, ... applied to the vector b.
ApplyTr(b, tr, k, step) ==
    IF k < 1 \/ k > Len(tr) THEN b
    ELSE ApplyTr([b EXCEPT ![k] = b[tr[k]], ![tr[k]] = b[k]], tr, k + step, step)

\* LDLT::solve for one right-hand side: P^T L^-T D^-1 L^-1 P b.
LdltSolveVec(f, b) ==
    LET n  == f.n
        pb == ApplyTr(b, f.tr, 1, 1)
        z[i \in 1..n] ==
            RSub(pb[i], RSumTo([j \in 1..(i - 1) |-> RMul(f.L[<<i, j>>], z[j])], i - 1))
        w  == [i \in 1..n |-> IF f.D[i] = Rat(0) THEN Rat(0) ELSE RDiv(z[i], f.D[i])]
        x[i \in 1..n] ==
            RSub(w[i], RSumTo([j \in 1..(n - i) |->
                                  RMul(f.L[<<n + 1 - j, i>>], x[n + 1 - j])], n - i))
    IN  ApplyTr([i \in 1..n |-> x[i]], f.tr, n, -1)

\* ldlt.solve(Identity(m.rows(), m.cols()))
LdltSolveIdentity(f) ==
    LET n   == f.n
        col == [j \in 1..n |->
                   LdltSolveVec(f, [i \in 1..n |-> IF i = j THEN Rat(1) ELSE Rat(0)])]
    IN  [ij \in Idx(n, n) |-> col[ij[2]][ij[1]]]

\* The nodes the reverse-mode arithmetic of 0.5*(m+m.transpose()) appends to
\* the tape when T is var: per coefficient one addition and one product.
SymmetrizeNodes(M) ==
    LET n == M.rows * M.cols
    IN  [i \in 1..(2 * n) |-> IF i % 2 = 1 THEN "add" ELSE "multiply"]

\* The symmetric matrices and their perturbations in one upper coefficient.
SquareInputs(n) ==
    LET Lower == {ij \in Idx(n, n) : ij[1] >= ij[2]}
        Upper == {ij \in Idx(n, n) : ij[1] < ij[2]}
    IN  {Matrix(n, n, [ij \in Idx(n, n) |->
                          f[<<Max2(ij[1], ij[2]), Min2(ij[1], ij[2])>>]
                            + (IF <<ij>> = pert THEN 1 ELSE 0)]) :
            f \in [Lower -> EntryVals], pert \in {<<>>} \cup {<<u>> : u \in Upper}}

NonSquareInputs(r, c) == {Matrix(r, c, f) : f \in [Idx(r, c) -> EntryVals]}

SpdInputs ==
    UNION {IF r = c THEN SquareInputs(r) ELSE NonSquareInputs(r, c) :
              r \in 1..MaxDim, c \in 1..MaxDim}

SpdInit ==
    /\ spd_m \in SpdInputs
    /\ spd_T \in {"double", "var"}
    /\ spd_pc = "check_square"
    /\ spd_err = ""
    /\ ldlt = <<>>
    /\ spd_result = <<>>
    \* the coefficients of a matrix of vars are nodes of the tape already
    /\ spd_tape = IF spd_T = "var"
                    THEN [i \in 1..(spd_m.rows * spd_m.cols) |-> "leaf"]
                    ELSE <<>>

SpdThrow(msg) ==
    /\ spd_pc' = "threw"
    /\ spd_err' = msg

\* line 26
SpdCheckSquare ==
    /\ spd_pc = "check_square"
    /\ IF check_square(spd_m)
         THEN spd_pc' = "check_symmetric" /\ UNCHANGED spd_err
         ELSE SpdThrow("m is not square")
    /\ UNCHANGED <<spd_m, spd_T, ldlt, spd_result, spd_tape>>

\* line 27
SpdCheckSymmetric ==
    /\ spd_pc = "check_symmetric"
    /\ IF check_symmetric(spd_m)
         THEN spd_pc' = "ldlt" /\ UNCHANGED spd_err
         ELSE SpdThrow("m is not symmetric")
    /\ UNCHANGED <<spd_m, spd_T, ldlt, spd_result, spd_tape>>

\* line 28: the symmetrized matrix is evaluated in T and factorized in T.
SpdFactorize ==
    /\ spd_pc = "ldlt"
    /\ ldlt' = LDLT(Symmetrized(spd_m), spd_m.rows)
    /\ spd_tape' = IF spd_T = "var"
                     THEN spd_tape \o SymmetrizeNodes(spd_m) \o <<"ldlt">>
                     ELSE spd_tape
    /\ spd_pc' = "check_info"
    /\ UNCHANGED <<spd_m, spd_T, spd_err, spd_result>>

\* lines 29-30
SpdCheckInfo ==
    /\ spd_pc = "check_info"
    /\ IF ldlt.info # "Success"
         THEN SpdThrow("LDLT factorization failed")
         ELSE spd_pc' = "check_positive" /\ UNCHANGED spd_err
    /\ UNCHANGED <<spd_m, spd_T, ldlt, spd_result, spd_tape>>

\* lines 31-32
SpdCheckPositive ==
    /\ spd_pc = "check_positive"
    /\ IF NotPositiveDefinite(ldlt)
         THEN SpdThrow("matrix not positive definite")
         ELSE spd_pc' = "solve" /\ UNCHANGED spd_err
    /\ UNCHANGED <<spd_m, spd_T, ldlt, spd_result, spd_tape>>

\* line 33
SpdSolve ==
    /\ spd_pc = "solve"
    /\ spd_result' = Matrix(spd_m.rows, spd_m.cols, LdltSolveIdentity(ldlt))
    /\ spd_tape' = IF spd_T = "var" THEN Append(spd_tape, "solve") ELSE spd_tape
    /\ spd_pc' = "returned"
    /\ UNCHANGED <<spd_m, spd_T, spd_err, ldlt>>

SpdOthers == UNCHANGED <<bllVars, gtVars, acVars, revVars>>

SpdNext ==
    \/ SpdCheckSquare /\ SpdOthers
    \/ SpdCheckSymmetric /\ SpdOthers
    \/ SpdFactorize /\ SpdOthers
    \/ SpdCheckInfo /\ SpdOthers
    \/ SpdCheckPositive /\ SpdOthers
    \/ SpdSolve /\ SpdOthers

SpdStart == SpdInit /\ BllIdle /\ GtIdle /\ AcIdle /\ RevIdle

SpecSpd == SpdStart /\ [][SpdNext]_vars

\* Determinant of the leading k x k block of an integer matrix, by expansion
\* along the last row of the block; rows and cols are the index sequences kept.
RECURSIVE MinorDet(_, _, _)
MinorDet(e, rowsq, colsq) ==
    IF Len(rowsq) = 0 THEN 1
    ELSE LET k    == Len(rowsq)
             drop(q, i) == [j \in 1..(k - 1) |-> IF j < i THEN q[j] ELSE q[j + 1]]
             term(j) == (IF (k + j) % 2 = 0 THEN 1 ELSE -1)
                          * e[<<rowsq[k], colsq[j]>>]
                          * MinorDet(e, drop(rowsq, k), drop(colsq, j))
             RECURSIVE acc(_)
             acc(j) == IF j = 0 THEN 0 ELSE acc(j - 1) + term(j)
         IN  acc(k)

LeadingMinor(M, k) == MinorDet(M.e, [i \in 1..k |-> i], [i \in 1..k |-> i])

\* Sylvester's criterion: every leading principal minor is positive.
PositiveDefinite(M) ==
    /\ M.rows = M.cols
    /\ \A ij \in Idx(M.rows, M.cols) : M.e[ij] = M.e[<<ij[2], ij[1]>>]
    /\ \A k \in 1..M.rows : LeadingMinor(M, k) > 0

\* -M is positive definite.
NegativeDefinite(M) ==
    PositiveDefinite(Matrix(M.rows, M.cols, [ij \in Idx(M.rows, M.cols) |-> -M.e[ij]]))

\* result * m = Identity
IsInverseOf(R, M) ==
    /\ R.rows = M.rows /\ R.cols = M.cols
    /\ \A ij \in Idx(M.rows, M.cols) :
           RSumTo([k \in 1..M.rows |-> RMul(R.e[<<ij[1], k>>], Rat(M.e[<<k, ij[2]>>]))],
                  M.rows)
             = (IF ij[1] = ij[2] THEN Rat(1) ELSE Rat(0))

SpdDone == spd_pc \in {"returned", "threw"}

C3_NoTapeNodesOnError ==
    (spd_pc = "threw" /\ spd_T = "var") =>
        Len(spd_tape) = spd_m.rows * spd_m.cols

\* C4: for every symmetric matrix that is positive definite or negative
\* definite, inverse_spd returns the inverse of the matrix.
C4_InverseOfDefinite ==
    (SpdDone /\ (PositiveDefinite(spd_m) \/ NegativeDefinite(spd_m))) =>
        /\ spd_pc = "returned"
        /\ IsInverseOf(spd_result, spd_m)

\* The result returned for a positive definite matrix is its inverse.
SpdInverseOfPositiveDefinite ==
    (SpdDone /\ PositiveDefinite(spd_m)) =>
        /\ spd_pc = "returned"
        /\ IsInverseOf(spd_result, spd_m)

-----------------------------------------------------------------------------
(* stan::services::util::generate_transitions (the overload taking the     *)
(* iteration callback; the other overload builds a log_iteration callback  *)
(* and calls this one with the same arguments).                            *)
(* calls is the sequence of calls made on the collaborators: the interrupt *)
(* callback, the iteration callback, the sampler and the mcmc_writer.      *)

\* The operator % of C++ on int: the remainder truncated toward zero; b # 0.
CRem(a, b) == Sign(a) * (Abs(a) % Abs(b))

\* the iteration number counted from 0
IterationNumber_mut1(st, mm) == st + mm

\* line 55: the argument of iteration(...)
IterationNumber(st, mm) == st + mm + 1

\* the thinning test on the 1-indexed iteration number
SaveTest_mut1(sv, mm, thin) == sv /\ CRem(mm + 1, thin) = 0

\* line 59: save && ((m % num_thin) == 0), for num_thin # 0
SaveTest(sv, mm, thin) == sv /\ CRem(mm, thin) = 0

GtInit ==
    /\ num_iterations \in (-1)..MaxIter
    /\ start \in 0..MaxStart
    /\ num_thin \in (-MaxThin)..MaxThin
    /\ save \in BOOLEAN
    /\ gt_m = 0
    /\ gt_pc = "for"
    /\ calls = <<>>

GtParams == <<num_iterations, start, num_thin, save>>

\* line 53: m < num_iterations
GtFor ==
    /\ gt_pc = "for"
    /\ gt_pc' = IF gt_m < num_iterations THEN "callback" ELSE "done"
    /\ UNCHANGED <<GtParams, gt_m, calls>>

\* line 54: callback()
GtCallback ==
    /\ gt_pc = "callback"
    /\ calls' = Append(calls, <<"callback", gt_m>>)
    /\ gt_pc' = "iteration"
    /\ UNCHANGED <<GtParams, gt_m>>

\* line 55: iteration(start + m + 1)
GtIteration ==
    /\ gt_pc = "iteration"
    /\ calls' = Append(calls, <<"iteration", IterationNumber(start, gt_m)>>)
    /\ gt_pc' = "transition"
    /\ UNCHANGED <<GtParams, gt_m>>

\* line 57: init_s = sampler.transition(init_s, logger)
GtTransition ==
    /\ gt_pc = "transition"
    /\ calls' = Append(calls, <<"transition", gt_m>>)
    /\ gt_pc' = "if_save"
    /\ UNCHANGED <<GtParams, gt_m>>

\* line 59: && evaluates m % num_thin only when save is true
GtIfSave ==
    /\ gt_pc = "if_save"
    /\ ~(save /\ num_thin = 0)
    /\ gt_pc' = IF SaveTest(save, gt_m, num_thin) THEN "write" ELSE "incr"
    /\ UNCHANGED <<GtParams, gt_m, calls>>

\* line 59 with save true and num_thin = 0: m % 0 is undefined; the test may
\* come out either way or the program may trap.
GtIfSaveModZero ==
    /\ gt_pc = "if_save"
    /\ save /\ num_thin = 0
    /\ gt_pc' \in {"write", "incr", "trapped"}
    /\ UNCHANGED <<GtParams, gt_m, calls>>

\* lines 60-61
GtWrite ==
    /\ gt_pc = "write"
    /\ calls' = calls \o <<<<"write_sample_params", gt_m>>,
                           <<"write_diagnostic_params", gt_m>>>>
    /\ gt_pc' = "incr"
    /\ UNCHANGED <<GtParams, gt_m>>

\* line 53: ++m
GtIncr ==
    /\ gt_pc = "incr"
    /\ gt_m' = gt_m + 1
    /\ gt_pc' = "for"
    /\ UNCHANGED <<GtParams, calls>>

GtOthers == UNCHANGED <<bllVars, spdVars, acVars, revVars>>

GtNext ==
    \/ GtFor /\ GtOthers
    \/ GtCallback /\ GtOthers
    \/ GtIteration /\ GtOthers
    \/ GtTransition /\ GtOthers
    \/ GtIfSave /\ GtOthers
    \/ GtIfSaveModZero /\ GtOthers
    \/ GtWrite /\ GtOthers
    \/ GtIncr /\ GtOthers

GtStart == GtInit /\ BllIdle /\ SpdIdle /\ AcIdle /\ RevIdle

SpecGt == GtStart /\ [][GtNext]_vars

CallsOf(kind) == SelectSeq(calls, LAMBDA c : c[1] = kind)

\* the iterations a draw was written on
Written(kind) == {CallsOf(kind)[i][2] : i \in 1..Len(CallsOf(kind))}

Multiple(mm, thin) == \E q \in 0..mm : mm = q * Abs(thin)

Iterations == 0..(num_iterations - 1)

\* C5: with save true (and num_thin # 0) a draw is written exactly on the
\* iterations m of 0..num_iterations-1 that are multiples of num_thin, once
\* each, ceil(num_iterations/num_thin) draws for num_thin >= 1; with save false
\* no draw is written, whatever num_thin is.
C5_DrawsWritten ==
    /\ ~save => CallsOf("write_sample_params") = <<>>
                  /\ CallsOf("write_diagnostic_params") = <<>>
    /\ (save /\ num_thin # 0) =>
          /\ \A k \in Written("write_sample_params") :
                 k \in Iterations /\ k <= gt_m /\ Multiple(k, num_thin)
          /\ CallsOf("write_diagnostic_params")
               = [i \in 1..Len(CallsOf("write_sample_params")) |->
                     <<"write_diagnostic_params", CallsOf("write_sample_params")[i][2]>>]
          /\ Cardinality(Written("write_sample_params"))
               = Len(CallsOf("write_sample_params"))
          /\ gt_pc = "done" =>
                /\ Written("write_sample_params")
                     = {k \in Iterations : Multiple(k, num_thin)}
                /\ num_thin >= 1 =>
                      Len(CallsOf("write_sample_params"))
                        = (Max2(num_iterations, 0) + num_thin - 1) \div num_thin

C5_Witness ==
    /\ gt_pc = "done"
    /\ save
    /\ num_thin = 3
    /\ num_iterations = 4
    /\ Written("write_sample_params") = {0, 3}

NotWrites == SelectSeq(calls, LAMBDA c : c[1] \in {"callback", "iteration", "transition"})

\* The calls the first n iterations are to make, other than the writes.
ExpectedCalls(n) ==
    [i \in 1..(3 * n) |->
        LET k == (i - 1) \div 3
        IN  IF i % 3 = 1 THEN <<"callback", k>>
            ELSE IF i % 3 = 2 THEN <<"iteration", start + k + 1>>
            ELSE <<"transition", k>>]

\* C6: each iteration calls the interrupt callback, then the iteration
\* callback, then sampler.transition, once each; the iteration callback of
\* iteration m gets start + m + 1; when the function returns each has been
\* called num_iterations times and the numbers passed were start+1, ...,
\* start+num_iterations in this order.
C6_CallbackOrder ==
    /\ Len(NotWrites) <= 3 * Max2(num_iterations, 0)
    /\ NotWrites = SubSeq(ExpectedCalls(Max2(num_iterations, 0)), 1, Len(NotWrites))
    /\ gt_pc = "done" =>
          /\ Len(CallsOf("callback")) = Max2(num_iterations, 0)
          /\ Len(CallsOf("iteration")) = Max2(num_iterations, 0)
          /\ CallsOf("iteration")
               = [i \in 1..Max2(num_iterations, 0) |-> <<"iteration", start + i>>]
    /\ \A i \in 1..Len(calls) :
          calls[i][1] = "write_sample_params" =>
              i > 1 /\ calls[i - 1] = <<"transition", calls[i][2]>>

C6_Witness ==
    /\ gt_pc = "done"
    /\ num_iterations = 3
    /\ start = 2
    /\ CallsOf("iteration") = <<<<"iteration", 3>>, <<"iteration", 4>>, <<"iteration", 5>>>>

-----------------------------------------------------------------------------
(* stan::math::append_col(A, B)                                            *)
(* A matrix is [T, rows, cols, e]: T its scalar type (double or var), e    *)
(* its coefficients [t |-> scalar type, v |-> value] at <<i, j>>, i and j  *)
(* counted from 1.                                                         *)

Scalar(T, v) == [t |-> T, v |-> v]

\* a coefficient of a matrix built with sizes only, not yet assigned
Unassigned == [t |-> "none", v |-> 0]

TMatrix(T, r, c, f) == [T |-> T, rows |-> r, cols |-> c, e |-> f]

Thrown(msg) == [threw |-> msg]

\* return_type<T1, T2>::type for T1, T2 in {double, var}
return_type(T1, T2) == IF T1 = "var" \/ T2 = "var" THEN "var" ELSE "double"

\* The assignment of a T coefficient to a coefficient of type R: the value is
\* kept, the type becomes R.
Assign(R, x) == Scalar(R, x.v)

\* check_size_match(function, name_i, i, name_j, j): passes when i = j.
check_size_match(i, j) == i = j

RECURSIVE RowLoop(_, _, _, _, _, _)
\* for (int i = 0; i < Arows; i++) result(i, j) = src(i, k);
RowLoop(result, R, i, Arows, jk, src) ==
    IF i >= Arows THEN result
    ELSE RowLoop([result EXCEPT ![<<i + 1, jk[1] + 1>>]
                                   = Assign(R, src[<<i + 1, jk[2] + 1>>])],
                 R, i + 1, Arows, jk, src)

RECURSIVE ColLoop(_, _, _, _, _, _, _)
\* for (j = j0, k = 0; k < n; j++, k++) { the loop over i }
ColLoop(result, R, j, k, n, Arows, src) ==
    IF k >= n THEN result
    ELSE ColLoop(RowLoop(result, R, 0, Arows, <<j, k>>, src), R, j + 1, k + 1, n,
                 Arows, src)

\* lines 33-42 with the second loop writing from column j0 on
AppendColLoops(MA, MB, j0) ==
    LET Arows == MA.rows
        Acols == MA.cols
        Bcols == MB.cols
        R     == return_type(MA.T, MB.T)
        r0    == [ij \in Idx(Arows, Acols + Bcols) |-> Unassigned]
        r1    == ColLoop(r0, R, 0, 0, Acols, Arows, MA.e)
        r2    == ColLoop(r1, R, j0, 0, Bcols, Arows, MB.e)
    IN  TMatrix(R, Arows, Acols + Bcols, r2)

\* the second loop nest writing from column 0 instead of column Acols
append_col_mixed_mut1(MA, MB) ==
    IF ~check_size_match(MA.rows, MB.rows)
      THEN Thrown("rows of A and rows of B must match in size")
      ELSE AppendColLoops(MA, MB, 0)

\* lines 21-43: the overload for scalar types T1, T2
append_col_mixed(MA, MB) ==
    IF ~check_size_match(MA.rows, MB.rows)
      THEN Thrown("rows of A and rows of B must match in size")
      ELSE AppendColLoops(MA, MB, MA.cols)

\* Eigen's comma initializer, xpr << first, other: the state after the first
\* block, and operator, placing the next block to its right (or on a new row
\* of blocks when the columns are used up).
CommaFirst(xpr, first) ==
    [xpr |-> [ij \in DOMAIN xpr |->
                 IF ij[1] <= first.rows /\ ij[2] <= first.cols
                   THEN first.e[ij] ELSE xpr[ij]],
     row |-> 0, col |-> first.cols, currentBlockRows |-> first.rows]

CommaNext(ci, xcols, other) ==
    LET wrap == ci.col = xcols /\ (other.cols # 0 \/ other.rows # ci.currentBlockRows)
        row  == IF wrap THEN ci.row + ci.currentBlockRows ELSE ci.row
        col  == IF wrap THEN 0 ELSE ci.col
    IN  [xpr |-> [ij \in DOMAIN ci.xpr |->
                     IF /\ ij[1] > row /\ ij[1] <= row + other.rows
                        /\ ij[2] > col /\ ij[2] <= col + other.cols
                       THEN other.e[<<ij[1] - row, ij[2] - col>>] ELSE ci.xpr[ij]],
         row |-> row, col |-> col + other.cols,
         currentBlockRows |-> IF wrap THEN other.rows ELSE ci.currentBlockRows]

\* lines 49-61: the overload for one scalar type T
append_col_same(MA, MB) ==
    IF ~check_size_match(MA.rows, MB.rows)
      THEN Thrown("rows of A and rows of B must match in size")
      ELSE LET r0 == [ij \in Idx(MA.rows, MA.cols + MB.cols) |-> Unassigned]
               ci == CommaNext(CommaFirst(r0, MA), MA.cols + MB.cols, MB)
           IN  TMatrix(MA.T, MA.rows, MA.cols + MB.cols, ci.xpr)

\* The matrices drawn: every coefficient has a value of its own.
AcInputs(base) ==
    {TMatrix(T, r, c, [ij \in Idx(r, c) |-> Scalar(T, base + 10 * ij[1] + ij[2])]) :
        T \in {"double", "var"}, r \in 0..MaxRows, c \in 0..MaxCols}

AcInit ==
    /\ A \in AcInputs(100)
    /\ B \in AcInputs(200)
    /\ ac_mixed = <<>>
    /\ ac_same = <<>>

\* a call of the overload for T1, T2
AcCallMixed ==
    /\ ac_mixed = <<>>
    /\ ac_mixed' = append_col_mixed(A, B)
    /\ UNCHANGED <<A, B, ac_same>>

\* a call of the overload for one T
AcCallSame ==
    /\ ac_same = <<>>
    /\ A.T = B.T
    /\ ac_same' = append_col_same(A, B)
    /\ UNCHANGED <<A, B, ac_mixed>>

AcOthers == UNCHANGED <<bllVars, spdVars, gtVars, revVars>>

AcNext ==
    \/ AcCallMixed /\ AcOthers
    \/ AcCallSame /\ AcOthers

AcStart == AcInit /\ BllIdle /\ SpdIdle /\ GtIdle /\ RevIdle

SpecAc == AcStart /\ [][AcNext]_vars

\* What append_col is to return for matrices of equal row counts.
AcExpected(res) ==
    /\ DOMAIN res = {"T", "rows", "cols", "e"}
    /\ res.rows = A.rows
    /\ res.cols = A.cols + B.cols
    /\ DOMAIN res.e = Idx(A.rows, A.cols + B.cols)
    /\ \A ij \in Idx(A.rows, A.cols + B.cols) :
           res.e[ij].v = (IF ij[2] <= A.cols
                            THEN A.e[ij].v
                            ELSE B.e[<<ij[1], ij[2] - A.cols>>].v)

\* C8: append_col(A, B) fails with the size-mismatch error, no result built,
\* when A.rows() # B.rows(); otherwise the result has A.rows() rows,
\* A.cols() + B.cols() columns, the coefficients of A in its first A.cols()
\* columns and those of B after them; and the two overloads give the same
\* result.
C8_AppendCol ==
    /\ ac_mixed # <<>> =>
          IF A.rows # B.rows
            THEN ac_mixed = Thrown("rows of A and rows of B must match in size")
            ELSE AcExpected(ac_mixed)
    /\ ac_same # <<>> =>
          IF A.rows # B.rows
            THEN ac_same = Thrown("rows of A and rows of B must match in size")
            ELSE AcExpected(ac_same)
    /\ (ac_mixed # <<>> /\ ac_same # <<>>) => ac_mixed = ac_same

C8_Witness ==
    /\ A.rows = 2 /\ A.cols = 1 /\ B.rows = 2 /\ B.cols = 2
    /\ ac_mixed # <<>> /\ ac_same # <<>>
    /\ ac_mixed = ac_same
    /\ ac_mixed.e[<<2, 3>>] = B.e[<<2, 2>>]

-----------------------------------------------------------------------------
(* The reverse-mode tape: the forward sweep appends one node per operation, *)
(* the backward sweep propagates adjoints from the last node to the first.  *)
(* tape[k] is the sequence of the partials <<operand, local derivative>> of *)
(* node k; adjoint[k] is its accumulator.  snap[k] is the adjoint node k    *)
(* had when it propagated to its operands.  Adjoints and local derivatives  *)
(* are integers here.                                                       *)

\* The local derivatives drawn.
LocalDerivs == {-1, 2}

\* A node's operand references point to earlier positions of the tape.
Operands == 1..Len(tape)

RevInit ==
    /\ tape = <<>>
    /\ adjoint = <<>>
    /\ cursor = 0
    /\ rev_pc = "forward"
    /\ snap = <<>>

\* Forward sweep: a leaf (a new independent variable, no operand).
RevLeaf ==
    /\ rev_pc = "forward"
    /\ Len(tape) < MaxNodes
    /\ tape' = Append(tape, <<>>)
    /\ UNCHANGED <<adjoint, cursor, rev_pc, snap>>

\* Forward sweep: an operation of one reverse-mode operand.
RevUnary ==
    /\ rev_pc = "forward"
    /\ Len(tape) < MaxNodes
    /\ \E a \in Operands, d \in LocalDerivs :
           tape' = Append(tape, <<<<a, d>>>>)
    /\ UNCHANGED <<adjoint, cursor, rev_pc, snap>>

\* Forward sweep: an operation of two reverse-mode operands (drawn with
\* a <= b: the order of a node's partials does not change the sums).
RevBinary ==
    /\ rev_pc = "forward"
    /\ Len(tape) < MaxNodes
    /\ \E a \in Operands, b \in Operands, d1 \in LocalDerivs, d2 \in LocalDerivs :
           /\ a <= b
           /\ tape' = Append(tape, <<<<a, d1>>, <<b, d2>>>>)
    /\ UNCHANGED <<adjoint, cursor, rev_pc, snap>>

\* backward(output, seed = 1): the output is the last node recorded.
RevSeed ==
    /\ rev_pc = "forward"
    /\ Len(tape) >= 1
    /\ adjoint' = [k \in 1..Len(tape) |-> IF k = Len(tape) THEN 1 ELSE 0]
    /\ snap' = [k \in 1..Len(tape) |-> 0]
    /\ cursor' = Len(tape)
    /\ rev_pc' = "backward"
    /\ UNCHANGED tape

\* the operand's adjoint overwritten instead of added to
Accumulate_mut1(adj, operand, amount) == [adj EXCEPT ![operand] = amount]

\* add node.adjoint * local_derivative into operand.adjoint
Accumulate(adj, operand, amount) == [adj EXCEPT ![operand] = @ + amount]

RECURSIVE Propagate(_, _, _, _)
\* for each recorded (operand_reference, local_derivative) of the node, in order
Propagate(adj, node, partials, i) ==
    IF i > Len(partials) THEN adj
    ELSE Propagate(Accumulate(adj, partials[i][1], adj[node] * partials[i][2]),
                   node, partials, i + 1)

\* Backward sweep: the node under the cursor propagates; the cursor moves to
\* the node created just before it.
RevVisit ==
    /\ rev_pc = "backward"
    /\ cursor >= 1
    /\ snap' = [snap EXCEPT ![cursor] = adjoint[cursor]]
    /\ adjoint' = Propagate(adjoint, cursor, tape[cursor], 1)
    /\ cursor' = cursor - 1
    /\ UNCHANGED <<tape, rev_pc>>

RevFinish ==
    /\ rev_pc = "backward"
    /\ cursor = 0
    /\ rev_pc' = "done"
    /\ UNCHANGED <<tape, adjoint, cursor, snap>>

RevOthers == UNCHANGED <<bllVars, spdVars, gtVars, acVars>>

RevNext ==
    \/ RevLeaf /\ RevOthers
    \/ RevUnary /\ RevOthers
    \/ RevBinary /\ RevOthers
    \/ RevSeed /\ RevOthers
    \/ RevVisit /\ RevOthers
    \/ RevFinish /\ RevOthers

RevStart == RevInit /\ BllIdle /\ SpdIdle /\ GtIdle /\ AcIdle

SpecRev == RevStart /\ [][RevNext]_vars

RECURSIVE EdgeSum(_, _, _)
\* The sum, over the partials of consumer c that refer to node k, of the
\* adjoint of c times the local derivative.
EdgeSum(k, c, i) ==
    IF i = 0 THEN 0
    ELSE EdgeSum(k, c, i - 1)
           + (IF tape[c][i][1] = k THEN adjoint[c] * tape[c][i][2] ELSE 0)

RECURSIVE ConsumerSum(_, _)
\* The same, summed over the consumers c, c + 1, ... of node k.
ConsumerSum(k, c) ==
    IF c > Len(tape) THEN 0
    ELSE EdgeSum(k, c, Len(tape[c])) + ConsumerSum(k, c + 1)

\* the number of partials on the tape that refer to node k
Uses(k) ==
    Cardinality({ci \in (1..Len(tape)) \X (1..2) :
                    ci[2] <= Len(tape[ci[1]]) /\ tape[ci[1]][ci[2]][1] = k})

\* C7: in a backward sweep in reverse creation order from the seeded output,
\* every node about to propagate, or that has propagated, holds the sum over
\* its consumers of the consumer's adjoint times the local derivative (plus
\* the seed at the output), and it propagated with exactly that adjoint: the
\* adjoint of a node used by two or more operations is fully accumulated
\* before the node propagates.
C7_SharedNodeAdjoint ==
    rev_pc \in {"backward", "done"} =>
        /\ \A k \in 1..Len(tape) :
               k >= cursor =>
                   adjoint[k] = (IF k = Len(tape) THEN 1 ELSE 0) + ConsumerSum(k, k + 1)
        /\ \A k \in 1..Len(tape) : k > cursor => snap[k] = adjoint[k]
        /\ \A c \in 1..Len(tape) : \A i \in 1..Len(tape[c]) : tape[c][i][1] < c

\* a diamond: node 1 feeds nodes 2 and 3, which feed node 4
C7_Witness ==
    /\ rev_pc = "done"
    /\ tape = <<<<>>, <<<<1, 2>>>>, <<<<1, -1>>>>, <<<<2, 2>>, <<3, 2>>>>>>
    /\ Uses(1) = 2
    /\ adjoint[1] = 2
    /\ snap[1] = 2

====
